---- MODULE Spec2Model ----
(***************************************************************************)
(* Model of the SmartPlantServer2 backend: the session/token lifecycle of  *)
(* AuthServiceST / SessionServiceST / RedisSessionRepository and the       *)
(* channel and direct messaging of RedisCachedStorageManager.              *)
(*                                                                         *)
(* Redis and the relational database are modelled by what the commands the *)
(* code issues do (HSET, EXPIRE, EXISTS, HGETALL, XADD, XRANGE, XREAD,     *)
(* XINFO STREAM, RPUSH, BLPOP, LRANGE, DEL, INSERT with a UNIQUE column,   *)
(* SELECT ... WHERE ... ORDER BY id LIMIT n).                              *)
(*                                                                         *)
(* Time is counted in abstract seconds.  The unix epoch of the first       *)
(* request (Epoch0) is larger than both token lifetimes, as it is for any  *)
(* real clock (about 1.7e9 s against 86400 s and 7776000 s); the lifetimes *)
(* of src/config.py are scaled down keeping their order.                   *)
(*                                                                         *)
(* Not modelled: the keyword/positional plumbing between layers (argument  *)
(* names, response payload shaping), session_name, and logging.            *)
(***************************************************************************)
EXTENDS Integers, Sequences, FiniteSets, TLC

\* ---------------------------------------------------------------- bounds
MaxUsers == 2
MaxSessions == 2
MaxUuid == 8
MaxTime == 5
MaxMessages == 3
MaxDirect == 2
MaxGatedMessages == 1
\* project_settings.STORAGE_CHANNEL_CACHE_SIZE (not set in src/config.py)
STORAGE_CHANNEL_CACHE_SIZE == 1

\* ------------------------------------------------------ program constants
\* src/config.py:51-52, scaled (24h and 90d): ACCESS < REFRESH < Epoch0.
ACCESS_TOKEN_TTL == 1
REFRESH_TOKEN_TTL == 2
Epoch0 == REFRESH_TOKEN_TTL + 1
\* channel_listen/route.py:27 and direct_listen/route.py:32: caps of `limit`
CHANNEL_LISTEN_MAX_LIMIT == 20
DIRECT_LISTEN_MAX_LIMIT == 10

Usernames == {"alice", "bob"}
Passwords == {"pw1", "pw2"}
IPs == {"10.0.0.1", "10.0.0.2"}
UserAgents == {"firefox", "curl"}
Dialects == {"mysql", "sqlite"}
\* Where sessions are opened from; refresh may come from any of IPs x UserAgents.
HomeIPs == {"10.0.0.1"}
HomeUserAgents == {"firefox"}
Channels == {"soil", "light"}
Devices == {"pump"}
Payloads == {"on"}
Offsets == -1..MaxMessages
Limits == 0..2
TTLs == {1}

VARIABLES
    dialect,    \* the database behind DATABASE_URL
    users,      \* table `users`: sequence of rows, id = position
    sessions,   \* Redis auth db: session key -> hash (+ key expiry deadline)
    tokens,     \* JWTs issued so far (what clients may present)
    nextUuid,   \* source of uuid4() values
    now,        \* wall clock, unix seconds
    last,       \* outcome of the latest auth request
    refresher,  \* a refresh call that has validated its token and not yet written
    storage_channel_messages,  \* table `storage_channel_messages`, id = position
    streams,    \* Redis storage db: channel stream key -> entries
    directs,    \* Redis storage db: direct list key -> items (+ key expiry deadline)
    listener,   \* a listen_channel / listen_direct call blocked in XREAD / BLPOP
    requester,  \* a send_direct_request call blocked in BLPOP for its response
    writer,     \* a write_to_channel call that has committed its row, XADD pending
    nextMessageUuid,  \* source of the uuid4() values of direct messages
    reply       \* response of the latest storage request

storage_vars == <<storage_channel_messages, streams, directs, listener, requester,
                  writer, nextMessageUuid, reply>>
auth_vars == <<dialect, users, sessions, tokens, nextUuid, now, last, refresher>>
vars == <<auth_vars, storage_vars>>

\* ----------------------------------------------------------------- values
NoToken == [token_type |-> "none", token_uuid |-> 0, user_id |-> 0, session_uuid |-> 0, exp |-> 0]
NoKey == <<0, 0>>

\* What a request answers: the exception raised ("none" on success), and on
\* success the session it is about and the token pair returned, if any.
Outcome(op, error, key, access, refresh) ==
    [op |-> op, error |-> error, key |-> key, access |-> access, refresh |-> refresh]

\* UserServiceST.hash_password: SHA-256 hex digest (collision-free idealisation).
hash_password(password) == <<"sha256", password>>

\* RedisSessionRepository._get_session_key
_get_session_key(user_id, session_uuid) == <<user_id, session_uuid>>

\* convert_for_redis: booleans become integers, stored by Redis as strings.
convert_for_redis(b) == IF b THEN "1" ELSE "0"

\* pydantic's bool parsing of the strings HGETALL returns.
ParseBool(s) == s \in {"1", "true"}

\* datetime.timestamp(): datetimes are kept as their unix second.
timestamp(dt) == dt

\* HTTP status each raised exception reaches the client with.
StatusOf(error) ==
    CASE error = "none" -> 200
      [] error = "SuspiciousActivity" -> 403
      [] error = "UserAlreadyExists" -> 409
      [] error \in {"ValidationError", "IntegrityError"} -> 500
      [] OTHER -> 401

\* ------------------------------------------------------------------- JWTs
\* jwt_tools.calculate_access_expire_at / calculate_refresh_expire_at
calculate_access_expire_at == now + ACCESS_TOKEN_TTL
calculate_refresh_expire_at == now + REFRESH_TOKEN_TTL

\* jwt_tools.create_access_token: AccessTokenPayload signed with SECRET_KEY.
create_access_token(user_id, session_uuid, token_uuid) ==
    [token_type |-> "access", token_uuid |-> token_uuid, user_id |-> user_id,
     session_uuid |-> session_uuid, exp |-> calculate_access_expire_at]

\* jwt_tools.create_refresh_token
create_refresh_token(user_id, session_uuid, token_uuid) ==
    [token_type |-> "refresh", token_uuid |-> token_uuid, user_id |-> user_id,
     session_uuid |-> session_uuid, exp |-> calculate_refresh_expire_at]

\* jwt_http.decode_jwt_token_with_http_exceptions: PyJWT rejects exp <= now.
decode_jwt_token_with_http_exceptions(token) ==
    IF token.exp <= now THEN "TokenExpired" ELSE "none"

\* A decoder that takes the payload of either token type.
decode_token_of_any_type(token) ==
    decode_jwt_token_with_http_exceptions(token)

\* jwt_http.decode_access_token_with_http_exceptions: the payload must
\* validate as AccessTokenPayload (token_type: Literal[ACCESS]).
decode_access_token_with_http_exceptions(token) ==
    IF decode_jwt_token_with_http_exceptions(token) # "none"
    THEN decode_jwt_token_with_http_exceptions(token)
    ELSE IF token.token_type # "access" THEN "TokenInvalid" ELSE "none"

\* jwt_http.decode_refresh_token_with_http_exceptions
decode_refresh_token_with_http_exceptions(token) ==
    IF decode_jwt_token_with_http_exceptions(token) # "none"
    THEN decode_jwt_token_with_http_exceptions(token)
    ELSE IF token.token_type # "refresh" THEN "TokenInvalid" ELSE "none"

TokenKey(token) == _get_session_key(token.user_id, token.session_uuid)

\* --------------------------------------------------- session repository
\* AuthSessionInternal.model_validate of the hash HGETALL returns.
model_validate(hash) == [hash EXCEPT !.is_active = ParseBool(hash.is_active)]

\* convert_for_redis(session.to_json_dict())
to_redis_mapping(session) == [session EXCEPT !.is_active = convert_for_redis(session.is_active)]

\* RedisSessionRepository.__save_session: HSET key mapping; EXPIRE key <seconds>
\* where <seconds> is round(session.expires_at.timestamp()).
save_session(store, session) ==
    LET key == _get_session_key(session.user_id, session.session_uuid)
        entry == [hash |-> to_redis_mapping(session),
                  deadline |-> now + timestamp(session.expires_at)]
    IN [k \in DOMAIN store \cup {key} |-> IF k = key THEN entry ELSE store[k]]

\* RedisSessionRepository.__delete_session(soft=True): EXISTS, then
\* HSET key is_active "false" (the key's expiry is left as it is).
soft_delete_session(store, key) ==
    IF key \in DOMAIN store
    THEN [store EXCEPT ![key].hash.is_active = "false"]
    ELSE store

\* RedisSessionRepository.__get_session followed by SessionServiceST.get_session.
\* HGETALL of a missing key gives {} (never None), so model_validate raises
\* pydantic.ValidationError before the `is None` test can answer.
get_session(user_id, session_uuid) ==
    LET key == _get_session_key(user_id, session_uuid)
    IN IF key \notin DOMAIN sessions THEN "ValidationError"
       ELSE IF ~model_validate(sessions[key].hash).is_active THEN "InactiveSession"
       ELSE "none"

\* RedisSessionRepository._get_user_sessions_key: "auth:user:<user_id>:sessions",
\* the text the session keys of the user begin with.
_get_user_sessions_key(user_id) == <<user_id>>

\* redis.scan_iter(match=pattern): the keys the glob pattern matches.  The
\* pattern passed has none of * ? [ in it, so it matches the key equal to it.
scan_iter(store, match) == {k \in DOMAIN store : k = match}

\* RedisSessionRepository.__scan_for_user_sessions (get_user_sessions)
get_user_sessions(user_id) ==
    {model_validate(sessions[k].hash) : k \in scan_iter(sessions, _get_user_sessions_key(user_id))}

\* RedisSessionRepository.revoke_other_sessions: soft delete of every session
\* get_user_sessions returns, keep_session_uuid skipped.
revoke_other_sessions(store, user_id, keep_session_uuid) ==
    [k \in DOMAIN store |->
        IF \E session \in get_user_sessions(user_id) :
              /\ session.session_uuid # keep_session_uuid
              /\ k = _get_session_key(user_id, session.session_uuid)
        THEN soft_delete_session(store, k)[k]
        ELSE store[k]]

\* SessionServiceST.validate_access_token: the error raised, "none" if accepted.
validate_access_token(token) ==
    IF decode_access_token_with_http_exceptions(token) # "none"
    THEN decode_access_token_with_http_exceptions(token)
    ELSE IF get_session(token.user_id, token.session_uuid) # "none"
    THEN get_session(token.user_id, token.session_uuid)
    ELSE IF model_validate(sessions[TokenKey(token)].hash).access_token_uuid # token.token_uuid
    THEN "TokenExpired"
    ELSE "none"

\* SessionServiceST.validate_refresh_token
validate_refresh_token(token) ==
    IF decode_refresh_token_with_http_exceptions(token) # "none"
    THEN decode_refresh_token_with_http_exceptions(token)
    ELSE IF get_session(token.user_id, token.session_uuid) # "none"
    THEN get_session(token.user_id, token.session_uuid)
    ELSE IF model_validate(sessions[TokenKey(token)].hash).refresh_token_uuid # token.token_uuid
    THEN "TokenExpired"
    ELSE "none"

\* AuthServiceST._get_user_by_id
_get_user_by_id(user_id) ==
    IF user_id \in 1..Len(users) THEN "none" ELSE "AuthUserUnknown"

\* AuthServiceST.authenticate: validate_access_token, then the user lookup.
authenticate(token) ==
    IF validate_access_token(token) # "none" THEN validate_access_token(token)
    ELSE _get_user_by_id(token.user_id)

\* AuthServiceST.suspicious_activity_check: what the coroutine returns when awaited.
suspicious_activity_check(session, current_client_ip, current_client_user_agent) ==
    session.ip_address = current_client_ip /\ session.user_agent = current_client_user_agent

\* auth_service.py:97 `if not self.suspicious_activity_check(...)`: the coroutine
\* is not awaited, and a coroutine object is truthy whatever it would return.
CoroutineObjectTruth(awaited_result) == TRUE

handles_as_suspicious(session, current_client_ip, current_client_user_agent) ==
    ~CoroutineObjectTruth(suspicious_activity_check(session, current_client_ip, current_client_user_agent))

\* ---------------------------------------------------------------- users
UserByName(username) == {i \in 1..Len(users) : users[i].username = username}

\* A lookup by username alone (the password filter dropped).
get_by_username_only(username, password_raw) ==
    {i \in 1..Len(users) : users[i].username = username}

\* UserRepositoryST.get_one_by_strict(username=..., password=hash)
get_by_auth_credentials(username, password_raw) ==
    {i \in 1..Len(users) : users[i].username = username
                            /\ users[i].password = hash_password(password_raw)}

\* str(error.orig) of the IntegrityError the driver raises for the UNIQUE column.
OrigMessage(d) == IF d = "mysql" THEN "Duplicate entry" ELSE "UNIQUE constraint failed"

\* str.lower()
Lower(text) ==
    CASE text = "Duplicate entry" -> "duplicate entry"
      [] text = "UNIQUE constraint failed" -> "unique constraint failed"
      [] OTHER -> text

\* main/db/exceptions.py error_mapping keys
error_mapping == {"duplicate entry", "UNIQUE constraint failed"}

\* async_session_error_convert_wrapper: a key converts the error when it occurs
\* in str(error.orig).lower(); otherwise the IntegrityError is re-raised.
async_session_error_convert_wrapper(d) ==
    IF \E key \in error_mapping : key = Lower(OrigMessage(d))
    THEN "UniqueConstraintFailed" ELSE "IntegrityError"

\* AuthServiceST._register_user: the error raised for a taken username.
_register_user_error(d) ==
    IF async_session_error_convert_wrapper(d) = "UniqueConstraintFailed"
    THEN "UserAlreadyExists" ELSE "IntegrityError"

\* ------------------------------------------------------------- sessions
\* RedisSessionRepository.create_session: the AuthSessionInternal it builds.
new_session(user_id, ip_address, user_agent, access_token_uuid, refresh_token_uuid, session_uuid) ==
    [session_uuid |-> session_uuid, user_id |-> user_id, is_active |-> TRUE,
     access_token_uuid |-> access_token_uuid, refresh_token_uuid |-> refresh_token_uuid,
     ip_address |-> ip_address, user_agent |-> user_agent,
     created_at |-> now, last_used |-> now, expires_at |-> now]

\* AuthServiceST._create_session: two token uuids, the session, the token pair.
_create_session(op, user_id, ip_address, user_agent) ==
    LET access_token_uuid == nextUuid
        refresh_token_uuid == nextUuid + 1
        session_uuid == nextUuid + 2
        session == new_session(user_id, ip_address, user_agent,
                               access_token_uuid, refresh_token_uuid, session_uuid)
        access_token == create_access_token(user_id, session_uuid, access_token_uuid)
        refresh_token == create_refresh_token(user_id, session_uuid, refresh_token_uuid)
    IN /\ nextUuid + 2 <= MaxUuid
       /\ Cardinality(DOMAIN sessions) < MaxSessions
       /\ sessions' = save_session(sessions, session)
       /\ tokens' = tokens \cup {access_token, refresh_token}
       /\ nextUuid' = nextUuid + 3
       /\ last' = Outcome(op, "none", _get_session_key(user_id, session_uuid),
                          access_token, refresh_token)

\* No refresh call between its validation and its write.
NotRefreshing == [pc |-> "idle", session |-> NoKey, ip |-> "", user_agent |-> ""]

\* No write_to_channel call between its INSERT and its XADD.
NotWriting == [pc |-> "idle", token |-> NoToken, message |-> NoKey]

Fail(op, error) ==
    last' = Outcome(op, error, NoKey, NoToken, NoToken)

\* ---------------------------------------------------------------- storage
NoExpiry == 0 - 1
NoMessages == <<>>

Min(a, b) == IF a < b THEN a ELSE b
Take(s, n) == SubSeq(s, 1, Min(Len(s), n))
MapSeq(s, Op(_)) == [i \in 1..Len(s) |-> Op(s[i])]

\* RedisCachedStorageManager._get_channel_stream_key
_get_channel_stream_key(user_id, channel_name) ==
    <<"storage", user_id, "channel", channel_name, "__stream__">>

\* A Redis key is the text the f-strings build, kept here as the sequence of
\* its colon-separated segments.  A device name is put into the key as it
\* comes (StorageMessage: any str of at most 50 characters), colons included.
Parts(name) ==
    CASE name = "pump:response:b" -> <<"pump", "response", "b">>
      [] OTHER -> <<name>>

\* str(uuid4()): the text of a uuid, one segment.
uuid_text(uuid) == <<ToString(uuid)>>

\* RedisCachedStorageManager._get_direct_key
_get_direct_key(user_id, target_name) ==
    <<"storage", user_id, "direct">> \o Parts(target_name)

\* RedisCachedStorageManager._get_response_direct_key; the uuid is the text
\* the caller gave (UUIDString is str, no format is checked).
_get_response_direct_key(user_id, sender_name, response_to_message_uuid) ==
    _get_direct_key(user_id, sender_name) \o <<"response">> \o response_to_message_uuid

\* pydantic model_dump_json / model_validate_json: a message and its JSON text.
model_dump_json(message) == <<"json", message>>
model_validate_json(text) == text[2]

\* BaseModel.to_schema(StorageChannelMessage): the columns as a schema object.
to_schema(row) ==
    [id |-> row.id, user_id |-> row.user_id, channel_name |-> row.channel_name,
     data |-> row.data]

\* StorageChannelMessageRepositoryST._fetch_messages:
\* SELECT ... WHERE user_id, channel_name, id > offset ORDER BY id LIMIT limit
_fetch_messages(user_id, channel_name, offset_id, limit) ==
    Take(SelectSeq(storage_channel_messages,
                   LAMBDA row : /\ row.user_id = user_id
                                /\ row.channel_name = channel_name
                                /\ row.id > offset_id),
         limit)

\* StorageChannelMessageRepositoryST.get_messages
get_messages(user_id, channel_name, offset_id, limit) ==
    MapSeq(_fetch_messages(user_id, channel_name, offset_id, limit), to_schema)

\* _fetch_messages_from_db
_fetch_messages_from_db(user_id, channel_name, offset_id, limit) ==
    get_messages(user_id, channel_name, offset_id, limit)

\* The stream id f"{message.id}-0" as <<milliseconds, sequence>>.
stream_id(id) == <<id, 0>>

\* XADD with an explicit id: Redis refuses an id that is not above the top entry.
xadd_error(stream, id) ==
    IF stream # <<>> /\ id[1] <= stream[Len(stream)].id[1] THEN "ResponseError" ELSE "none"

\* XADD key MAXLEN ~ n id fields: the entry is appended and `trimmed` oldest
\* entries are evicted; approximate trimming may evict fewer than the excess
\* over n, never more.
xadd(stream, id, fields, trimmed) ==
    LET appended == Append(stream, [id |-> id, fields |-> fields])
    IN SubSeq(appended, trimmed + 1, Len(appended))

TrimChoices(stream, maxlen) ==
    {0} \cup {k \in 1..(Len(stream) + 1) : Len(stream) + 1 - k >= maxlen}

StreamOf(key) == IF key \in DOMAIN streams THEN streams[key] ELSE <<>>

\* _get_redis_stream_info: XINFO STREAM fails for a key that does not exist;
\* (-1, -1) for an empty stream, else the ids of the first and last entry.
_get_redis_stream_info(user_id, channel_name) ==
    LET key == _get_channel_stream_key(user_id, channel_name)
    IN IF key \notin DOMAIN streams
       THEN [error |-> "ResponseError", bottom |-> 0 - 1, top |-> 0 - 1]
       ELSE IF streams[key] = <<>>
       THEN [error |-> "none", bottom |-> 0 - 1, top |-> 0 - 1]
       ELSE [error |-> "none", bottom |-> Head(streams[key]).id[1],
             top |-> streams[key][Len(streams[key])].id[1]]

\* _listen_channel: which read serves the call.
_listen_channel(bottom_message_id, top_message_id, offset_id) ==
    IF top_message_id = 0 - 1 THEN "wait"
    ELSE IF offset_id < bottom_message_id THEN "db"
    ELSE IF top_message_id <= offset_id THEN "wait"
    ELSE "redis"

\* _fetch_messages_from_redis: XRANGE key (offset_id + 1)-0 + COUNT limit
_fetch_messages_from_redis(user_id, channel_name, offset_id, limit) ==
    MapSeq(Take(SelectSeq(StreamOf(_get_channel_stream_key(user_id, channel_name)),
                          LAMBDA entry : entry.id[1] >= offset_id + 1),
                limit),
           LAMBDA entry : model_validate_json(entry.fields.data))

\* redis-py xrange: count must be a positive integer.
xrange_error(count) == IF count < 1 THEN "DataError" ELSE "none"

\* LRANGE key 0 stop (stop >= 0): the items at positions 0..stop.
lrange(items, stop) == SubSeq(items, 1, Min(Len(items), stop + 1))

\* RPUSH key item, then EXPIRE key ttl when a ttl is given.
rpush(store, key, item, deadline) ==
    [k \in DOMAIN store \cup {key} |->
        IF k = key
        THEN [items |-> Append(IF key \in DOMAIN store THEN store[key].items ELSE <<>>, item),
              deadline |-> IF deadline # NoExpiry THEN deadline
                           ELSE IF key \in DOMAIN store THEN store[key].deadline
                           ELSE NoExpiry]
        ELSE store[k]]

\* DEL key
delete(store, key) == [k \in DOMAIN store \ {key} |-> store[k]]

\* A bearer check that trusts the JWT alone, without looking the session up.
bearer_checking_jwt_only(token) ==
    IF token = NoToken THEN "AuthorizationNotSpecified"
    ELSE IF TokenKey(token) \notin DOMAIN sessions THEN "ValidationError"
    ELSE decode_access_token_with_http_exceptions(token)

\* BearerAuthMixin.extract_token, then AuthServiceST.authenticate.
HTTPJWTBearerAuthDependency(token) ==
    IF token = NoToken THEN "AuthorizationNotSpecified" ELSE authenticate(token)

\* auth_info.user.id: the user the validated session belongs to.
AuthUserId(token) == model_validate(sessions[TokenKey(token)].hash).user_id

StorageReply(op, error, token, user_id, name, offset_id, limit, path, messages) ==
    [op |-> op, error |-> error, token |-> token, user_id |-> user_id, name |-> name,
     offset_id |-> offset_id, limit |-> limit, path |-> path, messages |-> messages]

NoReply == StorageReply("none", "none", NoToken, 0, "", 0, 0, "", NoMessages)

Call(pc, op, token, user_id, name, offset_id, limit, messages) ==
    [pc |-> pc, op |-> op, token |-> token, user_id |-> user_id, name |-> name,
     offset_id |-> offset_id, limit |-> limit, messages |-> messages]

Idle == Call("idle", "none", NoToken, 0, "", 0, 0, NoMessages)

\* The Redis key a blocked call waits on.
WaitKey(call) ==
    CASE call.op = "listen_channel" -> _get_channel_stream_key(call.user_id, call.name)
      [] call.op = "listen_direct" -> _get_direct_key(call.user_id, call.name)
      [] call.op = "direct_request" ->
            _get_response_direct_key(call.user_id, call.name, uuid_text(call.offset_id))
      [] OTHER -> <<>>

WaitsOn(call, key) == call.pc = "blocked" /\ WaitKey(call) = key

\* The dependency raises before the route body runs: a 401, nothing touched.
Unauthorized(token, error) ==
    /\ reply' = StorageReply("unauthorized", error, token, 0, "", 0, 0, "", NoMessages)
    /\ UNCHANGED <<storage_channel_messages, streams, directs, listener, requester>>

Init ==
    /\ dialect \in Dialects
    /\ users = <<>>
    /\ sessions = <<>>
    /\ tokens = {}
    /\ nextUuid = 1
    /\ now = Epoch0
    /\ last = Outcome("init", "none", NoKey, NoToken, NoToken)
    /\ refresher = NotRefreshing
    /\ storage_channel_messages = <<>>
    /\ streams = <<>>
    /\ directs = <<>>
    /\ listener = Idle
    /\ requester = Idle
    /\ writer = NotWriting
    /\ nextMessageUuid = 1
    /\ reply = NoReply

\* AuthServiceST.register (register_route)
Register(username, password, ip_address, user_agent) ==
    IF UserByName(username) # {}
    THEN /\ Fail("register", _register_user_error(dialect))
         /\ UNCHANGED <<storage_vars, refresher, dialect, users, sessions, tokens, nextUuid, now>>
    ELSE /\ Len(users) < MaxUsers
         /\ users' = Append(users, [id |-> Len(users) + 1, username |-> username,
                                    password |-> hash_password(password)])
         /\ _create_session("register", Len(users) + 1, ip_address, user_agent)
         /\ UNCHANGED <<storage_vars, refresher, dialect, now>>

\* AuthServiceST.login (login_route)
Login(username, password, ip_address, user_agent) ==
    IF get_by_auth_credentials(username, password) = {}
    THEN /\ Fail("login", "WrongAuthCredentials")
         /\ UNCHANGED <<storage_vars, refresher, dialect, users, sessions, tokens, nextUuid, now>>
    ELSE /\ _create_session("login", CHOOSE i \in get_by_auth_credentials(username, password) : TRUE,
                            ip_address, user_agent)
         /\ UNCHANGED <<storage_vars, refresher, dialect, users, now>>

\* AuthServiceST.authenticate (HTTPJWTBearerAuthDependency.__call__)
Authenticate(token) ==
    /\ last' = Outcome("authenticate", authenticate(token),
                       IF authenticate(token) = "none" THEN TokenKey(token) ELSE NoKey,
                       NoToken, NoToken)
    /\ UNCHANGED <<storage_vars, refresher, dialect, users, sessions, tokens, nextUuid, now>>

\* A rotation that forgets to replace the refresh token uuid.
rotated_session_keeping_refresh(session, new_access_token_uuid, new_refresh_token_uuid) ==
    [session EXCEPT !.access_token_uuid = new_access_token_uuid]

\* The session AuthServiceST.refresh writes back: both token uuids replaced.
rotated_session(session, new_access_token_uuid, new_refresh_token_uuid) ==
    [session EXCEPT !.access_token_uuid = new_access_token_uuid,
                    !.refresh_token_uuid = new_refresh_token_uuid]

\* AuthServiceST.refresh from line 97 on, with the session its validation read:
\* the suspicious-activity branch, else new uuids, update_session, the new pair.
_refresh_write(session, current_client_ip, current_client_user_agent) ==
    LET key == _get_session_key(session.user_id, session.session_uuid)
        new_access_token == create_access_token(session.user_id, session.session_uuid, nextUuid)
        new_refresh_token == create_refresh_token(session.user_id, session.session_uuid, nextUuid + 1)
    IN IF handles_as_suspicious(session, current_client_ip, current_client_user_agent)
       THEN /\ sessions' = soft_delete_session(sessions, key)
            /\ Fail("refresh", "SuspiciousActivity")
            /\ UNCHANGED <<tokens, nextUuid>>
       ELSE /\ nextUuid + 1 <= MaxUuid
            /\ sessions' = save_session(sessions, rotated_session(session, nextUuid, nextUuid + 1))
            /\ tokens' = tokens \cup {new_access_token, new_refresh_token}
            /\ nextUuid' = nextUuid + 2
            /\ last' = Outcome("refresh", "none", key, new_access_token, new_refresh_token)

\* What AuthServiceST.refresh raises before line 97, "none" if it goes on.
refresh_error(token) ==
    IF validate_refresh_token(token) # "none" THEN validate_refresh_token(token)
    ELSE _get_user_by_id(token.user_id)

\* AuthServiceST.refresh (refresh_route), served without another request in between.
Refresh(refresh_token, current_client_ip, current_client_user_agent) ==
    IF refresh_error(refresh_token) # "none"
    THEN /\ Fail("refresh", refresh_error(refresh_token))
         /\ UNCHANGED <<storage_vars, refresher, dialect, users, sessions, tokens, nextUuid, now>>
    ELSE /\ _refresh_write(model_validate(sessions[TokenKey(refresh_token)].hash),
                           current_client_ip, current_client_user_agent)
         /\ UNCHANGED <<storage_vars, refresher, dialect, users, now>>

\* AuthServiceST.refresh up to its first write: `await validate_refresh_token`
\* and `await _get_user_by_id` have answered; other requests run before the
\* coroutine goes on to update_session.
RefreshBegin(refresh_token, current_client_ip, current_client_user_agent) ==
    /\ refresher.pc = "idle"
    /\ IF refresh_error(refresh_token) # "none"
       THEN /\ Fail("refresh", refresh_error(refresh_token))
            /\ UNCHANGED refresher
       ELSE /\ refresher' = [pc |-> "validated",
                             session |-> model_validate(sessions[TokenKey(refresh_token)].hash),
                             ip |-> current_client_ip, user_agent |-> current_client_user_agent]
            /\ UNCHANGED last
    /\ UNCHANGED <<storage_vars, dialect, users, sessions, tokens, nextUuid, now>>

\* The rest of that refresh call, writing the session object it read.
RefreshCommit ==
    /\ refresher.pc = "validated"
    /\ _refresh_write(refresher.session, refresher.ip, refresher.user_agent)
    /\ refresher' = NotRefreshing
    /\ UNCHANGED <<storage_vars, dialect, users, now>>

\* SessionServiceST.revoke_session after a successful authenticate:
\* revoke_session_by_id answers False for a missing key -> InvalidSession.
RevokeAs(op, token, session_uuid) ==
    LET key == _get_session_key(token.user_id, session_uuid)
    IN IF authenticate(token) # "none"
       THEN /\ Fail(op, authenticate(token))
            /\ UNCHANGED <<storage_vars, refresher, dialect, users, sessions, tokens, nextUuid, now>>
       ELSE IF key \notin DOMAIN sessions
       THEN /\ Fail(op, "InvalidSession")
            /\ UNCHANGED <<storage_vars, refresher, dialect, users, sessions, tokens, nextUuid, now>>
       ELSE /\ sessions' = soft_delete_session(sessions, key)
            /\ last' = Outcome(op, "none", key, NoToken, NoToken)
            /\ UNCHANGED <<storage_vars, refresher, dialect, users, tokens, nextUuid, now>>

\* logout_route: revokes the session of the presented access token.
Logout(token) == RevokeAs("logout", token, token.session_uuid)

\* terminate_session_route: revokes session_uuid of the authenticated user.
TerminateSession(token, session_uuid) == RevokeAs("terminate", token, session_uuid)

\* SessionServiceST.revoke_other_sessions(user_id, keep_session_uuid)
RevokeOtherSessions(user_id, keep_session_uuid) ==
    /\ sessions' = revoke_other_sessions(sessions, user_id, keep_session_uuid)
    /\ last' = Outcome("revoke_other_sessions", "none",
                       _get_session_key(user_id, keep_session_uuid), NoToken, NoToken)
    /\ UNCHANGED <<storage_vars, refresher, dialect, users, tokens, nextUuid, now>>

\* ------------------------------------------------------- storage routes
\* RedisCachedStorageManager._write_to_channel from `redis.xadd` on: the row is
\* added to the channel stream under id "<row id>-0", which Redis refuses when
\* the stream already holds that id or a higher one.  An accepted XADD wakes a
\* listen_channel call blocked in XREAD on that stream.
_xadd_message(token, message) ==
    LET key == _get_channel_stream_key(message.user_id, message.channel_name)
        fields == [data |-> model_dump_json(message)]
    IN IF xadd_error(StreamOf(key), stream_id(message.id)) # "none"
       THEN /\ reply' = StorageReply("write_to_channel", "ResponseError", token, message.user_id,
                                     message.channel_name, 0, 0, "", NoMessages)
            /\ UNCHANGED <<streams, listener>>
       ELSE /\ \E trimmed \in TrimChoices(StreamOf(key), STORAGE_CHANNEL_CACHE_SIZE) :
                  streams' = [k \in DOMAIN streams \cup {key} |->
                                IF k = key
                                THEN xadd(StreamOf(key), stream_id(message.id), fields, trimmed)
                                ELSE streams[k]]
            /\ listener' = IF WaitsOn(listener, key)
                           THEN [listener EXCEPT !.pc = "ready", !.messages = <<fields.data>>]
                           ELSE listener
            /\ reply' = StorageReply("write_to_channel", "none", token, message.user_id,
                                     message.channel_name, 0, 0, "", <<message>>)

\* The row `_scm_resource.create` inserts: the table's next autoincrement id.
new_row(user_id, channel_name, data) ==
    [id |-> Len(storage_channel_messages) + 1, user_id |-> user_id,
     channel_name |-> channel_name, data |-> data]

\* channel_write_route -> RedisCachedStorageManager._write_to_channel, served
\* without another request in between: INSERT the row, then XADD it.
ChannelWrite(token, channel_name, data) ==
    IF HTTPJWTBearerAuthDependency(token) # "none"
    THEN /\ Unauthorized(token, HTTPJWTBearerAuthDependency(token))
         /\ UNCHANGED <<writer, nextMessageUuid, auth_vars>>
    ELSE LET row == new_row(AuthUserId(token), channel_name, data)
         IN /\ Len(storage_channel_messages) < MaxMessages
            /\ storage_channel_messages' = Append(storage_channel_messages, row)
            /\ _xadd_message(token, to_schema(row))
            /\ UNCHANGED <<directs, requester>>
            /\ UNCHANGED <<writer, nextMessageUuid, auth_vars>>

\* _write_to_channel up to `await self._scm_resource.create(model)`: the row is
\* committed; other requests run before the coroutine goes on to XADD.
ChannelWriteCommit(token, channel_name, data) ==
    /\ writer.pc = "idle"
    /\ HTTPJWTBearerAuthDependency(token) = "none"
    /\ Len(storage_channel_messages) < MaxMessages
    /\ LET row == new_row(AuthUserId(token), channel_name, data)
       IN /\ storage_channel_messages' = Append(storage_channel_messages, row)
          /\ writer' = [pc |-> "committed", token |-> token, message |-> to_schema(row)]
    /\ reply' = NoReply
    /\ UNCHANGED <<streams, directs, listener, requester, nextMessageUuid, auth_vars>>

\* The rest of that write_to_channel call: the XADD of the row it committed.
ChannelWriteXadd ==
    /\ writer.pc = "committed"
    /\ _xadd_message(writer.token, writer.message)
    /\ writer' = NotWriting
    /\ UNCHANGED <<storage_channel_messages, directs, requester, nextMessageUuid, auth_vars>>

\* channel_listen_route -> RedisCachedStorageManager._listen_channel.  A call
\* that has to wait parks in XREAD '$'; the others answer at once.
ChannelListen(token, channel_name, offset_id_query, limit_query) ==
    IF HTTPJWTBearerAuthDependency(token) # "none"
    THEN /\ Unauthorized(token, HTTPJWTBearerAuthDependency(token))
         /\ UNCHANGED <<writer, nextMessageUuid, auth_vars>>
    ELSE LET user_id == AuthUserId(token)
             offset_id == IF offset_id_query > 0 THEN offset_id_query ELSE 0
             limit == IF limit_query <= CHANNEL_LISTEN_MAX_LIMIT THEN limit_query
                      ELSE CHANNEL_LISTEN_MAX_LIMIT
             info == _get_redis_stream_info(user_id, channel_name)
             path == _listen_channel(info.bottom, info.top, offset_id)
             Answer(error, served_by, messages) ==
                 StorageReply("listen_channel", error, token, user_id, channel_name,
                              offset_id, limit, served_by, messages)
         IN /\ listener.pc = "idle"
            /\ IF info.error # "none"
               THEN reply' = Answer(info.error, "", NoMessages) /\ listener' = listener
               ELSE IF path = "wait"
               THEN /\ listener' = Call("blocked", "listen_channel", token, user_id,
                                        channel_name, offset_id, limit, NoMessages)
                    /\ reply' = NoReply
               ELSE IF path = "db"
               THEN /\ reply' = Answer("none", path,
                                        _fetch_messages_from_db(user_id, channel_name, offset_id, limit))
                    /\ listener' = listener
               ELSE IF xrange_error(limit) # "none"
               THEN reply' = Answer(xrange_error(limit), path, NoMessages) /\ listener' = listener
               ELSE /\ reply' = Answer("none", path,
                                        _fetch_messages_from_redis(user_id, channel_name, offset_id, limit))
                    /\ listener' = listener
            /\ UNCHANGED <<storage_channel_messages, streams, directs, requester>>
            /\ UNCHANGED <<writer, nextMessageUuid, auth_vars>>

\* _listen_channel up to `await self._get_redis_stream_info(...)` of a call
\* that goes on to _wait_for_message_in_redis: the stream was looked at and
\* the call has decided to wait; other requests run before it reaches XREAD.
ChannelListenInfo(token, channel_name, offset_id_query, limit_query) ==
    /\ listener.pc = "idle"
    /\ HTTPJWTBearerAuthDependency(token) = "none"
    /\ LET user_id == AuthUserId(token)
           offset_id == IF offset_id_query > 0 THEN offset_id_query ELSE 0
           limit == IF limit_query <= CHANNEL_LISTEN_MAX_LIMIT THEN limit_query
                    ELSE CHANNEL_LISTEN_MAX_LIMIT
           info == _get_redis_stream_info(user_id, channel_name)
       IN /\ info.error = "none"
          /\ _listen_channel(info.bottom, info.top, offset_id) = "wait"
          /\ listener' = Call("checked", "listen_channel", token, user_id,
                              channel_name, offset_id, limit, NoMessages)
    /\ reply' = NoReply
    /\ UNCHANGED <<storage_channel_messages, streams, directs, requester>>
    /\ UNCHANGED <<writer, nextMessageUuid, auth_vars>>

\* The rest of that call: XREAD {key: '$'} BLOCK timeout parks it; '$' is the
\* top of the stream at this moment, so only a later XADD wakes it.
ChannelListenXread ==
    /\ listener.pc = "checked"
    /\ listener' = [listener EXCEPT !.pc = "blocked"]
    /\ UNCHANGED <<storage_channel_messages, streams, directs, requester, reply>>
    /\ UNCHANGED <<writer, nextMessageUuid, auth_vars>>

\* direct_listen_route -> _listen_direct: BLPOP the first item (parking when
\* the list is empty), then LRANGE key 0 limit and DEL key.
DirectListen(token, device_name, limit_query) ==
    IF HTTPJWTBearerAuthDependency(token) # "none"
    THEN /\ Unauthorized(token, HTTPJWTBearerAuthDependency(token))
         /\ UNCHANGED <<writer, nextMessageUuid, auth_vars>>
    ELSE LET user_id == AuthUserId(token)
             limit == IF limit_query <= DIRECT_LISTEN_MAX_LIMIT THEN limit_query
                      ELSE DIRECT_LISTEN_MAX_LIMIT
             key == _get_direct_key(user_id, device_name)
         IN /\ listener.pc = "idle"
            /\ IF key \notin DOMAIN directs
               THEN /\ listener' = Call("blocked", "listen_direct", token, user_id,
                                        device_name, 0, limit, NoMessages)
                    /\ reply' = NoReply
                    /\ directs' = directs
               ELSE /\ reply' = StorageReply("listen_direct", "none", token, user_id, device_name,
                                             0, limit, "",
                                             MapSeq(<<Head(directs[key].items)>>
                                                      \o lrange(Tail(directs[key].items), limit),
                                                    model_validate_json))
                    /\ directs' = delete(directs, key)
                    /\ listener' = listener
            /\ UNCHANGED <<storage_channel_messages, streams, requester>>
            /\ UNCHANGED <<writer, nextMessageUuid, auth_vars>>

\* _listen_direct up to `await redis.lrange(key, 0, limit)` of a call that
\* found the list non-empty: BLPOP took the first item, LRANGE copied the next
\* ones (they stay in the list); other requests run before it reaches DEL.
DirectListenCollect(token, device_name, limit_query) ==
    /\ listener.pc = "idle"
    /\ HTTPJWTBearerAuthDependency(token) = "none"
    /\ LET user_id == AuthUserId(token)
           limit == IF limit_query <= DIRECT_LISTEN_MAX_LIMIT THEN limit_query
                    ELSE DIRECT_LISTEN_MAX_LIMIT
           key == _get_direct_key(user_id, device_name)
       IN /\ key \in DOMAIN directs
          /\ listener' = Call("collected", "listen_direct", token, user_id, device_name, 0, limit,
                              <<Head(directs[key].items)>>
                                 \o lrange(Tail(directs[key].items), limit))
          /\ directs' = IF Tail(directs[key].items) = <<>>
                        THEN delete(directs, key)
                        ELSE [directs EXCEPT ![key].items = Tail(directs[key].items)]
    /\ reply' = NoReply
    /\ UNCHANGED <<storage_channel_messages, streams, requester>>
    /\ UNCHANGED <<writer, nextMessageUuid, auth_vars>>

\* The rest of that call: DEL key, then the collected items are answered.
DirectListenDelete ==
    /\ listener.pc = "collected"
    /\ directs' = delete(directs, _get_direct_key(listener.user_id, listener.name))
    /\ reply' = StorageReply("listen_direct", "none", listener.token, listener.user_id,
                             listener.name, 0, listener.limit, "",
                             MapSeq(listener.messages, model_validate_json))
    /\ listener' = Idle
    /\ UNCHANGED <<storage_channel_messages, streams, requester>>
    /\ UNCHANGED <<writer, nextMessageUuid, auth_vars>>

\* The parked listen call resumes with what woke it.  listen_channel answers
\* the entries XREAD returned; listen_direct continues with LRANGE and DEL.
ListenerReturn ==
    /\ listener.pc = "ready"
    /\ LET key == _get_direct_key(listener.user_id, listener.name)
           queued == IF key \in DOMAIN directs THEN directs[key].items ELSE <<>>
       IN IF listener.op = "listen_direct"
          THEN /\ reply' = StorageReply("listen_direct", "none", listener.token,
                                        listener.user_id, listener.name, 0, listener.limit, "wait",
                                        MapSeq(listener.messages \o lrange(queued, listener.limit),
                                               model_validate_json))
               /\ directs' = delete(directs, key)
          ELSE /\ reply' = StorageReply("listen_channel", "none", listener.token,
                                        listener.user_id, listener.name, listener.offset_id,
                                        listener.limit, "wait",
                                        MapSeq(listener.messages, model_validate_json))
               /\ directs' = directs
    /\ listener' = Idle
    /\ UNCHANGED <<storage_channel_messages, streams, requester>>
    /\ UNCHANGED <<writer, nextMessageUuid, auth_vars>>

\* XREAD / BLPOP of the parked listen call times out: an empty tuple.
ListenerTimeout ==
    /\ listener.pc = "blocked"
    /\ reply' = StorageReply(listener.op, "none", listener.token, listener.user_id,
                             listener.name, listener.offset_id, listener.limit, "wait",
                             NoMessages)
    /\ listener' = Idle
    /\ UNCHANGED <<storage_channel_messages, streams, directs, requester>>
    /\ UNCHANGED <<writer, nextMessageUuid, auth_vars>>

\* _send_direct: RPUSH key json, then EXPIRE key ttl if a ttl is given.  A call
\* blocked in BLPOP on the key is served the item at once (the key stays absent).
_send_direct(key, message, deadline) ==
    /\ directs' = IF WaitsOn(listener, key) \/ WaitsOn(requester, key)
                  THEN directs
                  ELSE rpush(directs, key, model_dump_json(message), deadline)
    /\ listener' = IF WaitsOn(listener, key)
                   THEN [listener EXCEPT !.pc = "ready",
                                         !.messages = <<model_dump_json(message)>>]
                   ELSE listener

\* StorageDirectRequest / StorageDirectResponse(**message_data), uuid4() default.
StorageDirectMessage(intent, user_id, sender_name, target_name, data) ==
    [uuid |-> nextMessageUuid, intent |-> intent, user_id |-> user_id,
     sender_name |-> sender_name, target_name |-> target_name, data |-> data]

\* direct_request_route -> _send_direct_request: push the request to the
\* target's list with ttl, then BLPOP the request's response key.
DirectRequest(token, sender_name, target_name, data, ttl) ==
    IF HTTPJWTBearerAuthDependency(token) # "none"
    THEN /\ Unauthorized(token, HTTPJWTBearerAuthDependency(token))
         /\ UNCHANGED <<writer, nextMessageUuid, auth_vars>>
    ELSE LET user_id == AuthUserId(token)
             request == StorageDirectMessage("request", user_id, sender_name, target_name, data)
             key == _get_direct_key(request.user_id, request.target_name)
         IN /\ nextMessageUuid <= MaxDirect
            /\ requester.pc = "idle"
            /\ _send_direct(key, request, now + ttl)
            /\ requester' = Call("blocked", "direct_request", token, request.user_id,
                                 request.target_name, request.uuid, 0, NoMessages)
            /\ nextMessageUuid' = nextMessageUuid + 1
            /\ reply' = NoReply
            /\ UNCHANGED <<storage_channel_messages, streams>>
            /\ UNCHANGED <<writer, auth_vars>>

\* direct_response_route -> _send_direct_response: push the response to the
\* key of the request it answers (no ttl is passed by the route).
DirectResponse(token, sender_name, target_name, data, response_to_message_uuid) ==
    IF HTTPJWTBearerAuthDependency(token) # "none"
    THEN /\ Unauthorized(token, HTTPJWTBearerAuthDependency(token))
         /\ UNCHANGED <<writer, nextMessageUuid, auth_vars>>
    ELSE LET user_id == AuthUserId(token)
             response == StorageDirectMessage("response", user_id, sender_name, target_name, data)
             key == _get_response_direct_key(response.user_id, response.sender_name,
                                             response_to_message_uuid)
         IN /\ nextMessageUuid <= MaxDirect
            /\ _send_direct(key, response, NoExpiry)
            /\ requester' = IF WaitsOn(requester, key)
                            THEN [requester EXCEPT !.pc = "ready",
                                                   !.messages = <<model_dump_json(response)>>]
                            ELSE requester
            /\ nextMessageUuid' = nextMessageUuid + 1
            /\ reply' = StorageReply("direct_response", "none", token, user_id, sender_name,
                                     0, 0, "", NoMessages)
            /\ UNCHANGED <<storage_channel_messages, streams>>
            /\ UNCHANGED <<writer, auth_vars>>

\* StorageDirectResponse.model_validate_json: intent is Literal[RESPONSE].
response_validation_error(messages) ==
    IF \A i \in 1..Len(messages) : model_validate_json(messages[i]).intent = "response"
    THEN "none" ELSE "ValidationError"

\* _wait_for_direct_response resumes with the item BLPOP returned.
RequesterReturn ==
    /\ requester.pc = "ready"
    /\ reply' = StorageReply("direct_request", response_validation_error(requester.messages),
                             requester.token, requester.user_id,
                             requester.name, requester.offset_id, 0, "wait",
                             IF response_validation_error(requester.messages) = "none"
                             THEN MapSeq(requester.messages, model_validate_json)
                             ELSE NoMessages)
    /\ requester' = Idle
    /\ UNCHANGED <<storage_channel_messages, streams, directs, listener>>
    /\ UNCHANGED <<writer, nextMessageUuid, auth_vars>>

\* BLPOP of the response key times out: responded = false, response = null.
RequesterTimeout ==
    /\ requester.pc = "blocked"
    /\ reply' = StorageReply("direct_request", "none", requester.token, requester.user_id,
                             requester.name, requester.offset_id, 0, "wait", NoMessages)
    /\ requester' = Idle
    /\ UNCHANGED <<storage_channel_messages, streams, directs, listener>>
    /\ UNCHANGED <<writer, nextMessageUuid, auth_vars>>

\* Redis loses a channel stream (restart without persistence, eviction, FLUSHDB):
\* the cache is gone while the table keeps its rows.
StreamLost(key) ==
    /\ key \in DOMAIN streams
    /\ streams' = [k \in DOMAIN streams \ {key} |-> streams[k]]
    /\ UNCHANGED <<storage_channel_messages, directs, listener, requester, reply>>
    /\ UNCHANGED <<writer, nextMessageUuid, auth_vars>>

\* Redis loses a session key (restart without persistence, eviction, FLUSHDB,
\* DEL by an operator): the record is gone while its tokens are still valid JWTs.
SessionLost(key) ==
    /\ key \in DOMAIN sessions
    /\ sessions' = [k \in DOMAIN sessions \ {key} |-> sessions[k]]
    /\ last' = Outcome("session_lost", "none", key, NoToken, NoToken)
    /\ UNCHANGED <<storage_vars, refresher, dialect, users, tokens, nextUuid, now>>

\* One second passes; Redis drops the keys whose EXPIRE deadline is reached.
Tick ==
    /\ now < MaxTime
    /\ now' = now + 1
    /\ sessions' = [k \in {x \in DOMAIN sessions : sessions[x].deadline > now + 1} |-> sessions[k]]
    /\ last' = Outcome("tick", "none", NoKey, NoToken, NoToken)
    /\ directs' = [k \in {x \in DOMAIN directs : directs[x].deadline = NoExpiry
                                                   \/ directs[x].deadline > now + 1} |-> directs[k]]
    /\ UNCHANGED <<storage_channel_messages, streams, listener, requester, writer,
                   nextMessageUuid, reply>>
    /\ UNCHANGED <<dialect, users, tokens, nextUuid, refresher>>

SessionUuids == {k[2] : k \in DOMAIN sessions} \cup {0}

Next ==
    \/ \E u \in Usernames, p \in Passwords, ip \in HomeIPs, ua \in HomeUserAgents : Register(u, p, ip, ua)
    \/ \E u \in Usernames, p \in Passwords, ip \in HomeIPs, ua \in HomeUserAgents : Login(u, p, ip, ua)
    \/ \E t \in tokens : Authenticate(t)
    \/ \E t \in tokens, ip \in IPs, ua \in UserAgents : Refresh(t, ip, ua)
    \/ \E t \in tokens : Logout(t)
    \/ \E t \in tokens, s \in SessionUuids : TerminateSession(t, s)
    \/ Tick

Spec == Init /\ [][Next]_vars

\* The session requests as the event loop interleaves them: one refresh call
\* may stand between the read and the write of its session while the other
\* requests are served.  The clock stands still, so no token expires.
NextRefresh ==
    \/ \E u \in Usernames, ip \in HomeIPs, ua \in HomeUserAgents : Register(u, "pw1", ip, ua)
    \/ \E t \in tokens : Authenticate(t)
    \/ \E t \in tokens, ip \in IPs, ua \in UserAgents : Refresh(t, ip, ua)
    \/ \E t \in tokens, ip \in IPs, ua \in UserAgents : RefreshBegin(t, ip, ua)
    \/ RefreshCommit
    \/ \E t \in tokens : Logout(t)

InitRefresh == Init /\ dialect = "mysql"

SpecRefresh == InitRefresh /\ [][NextRefresh]_vars

\* The storage routes, with the auth requests that open and close the sessions
\* their bearer tokens belong to.
Bearers == tokens \cup {NoToken}
\* The request uuids a response may name: the pending request's, or none's.
ResponseTargets == {uuid_text(requester.offset_id)}

AccessTokens == {t \in tokens : t.token_type = "access"}

\* All five storage routes behind the bearer dependency, with the auth requests
\* that open and close the sessions; one channel row is enough to leak.
NextStorage ==
    \/ \E u \in Usernames, ip \in HomeIPs, ua \in HomeUserAgents : Register(u, "pw1", ip, ua)
    \/ \E t \in tokens : Logout(t)
    \/ \E t \in Bearers, d \in Payloads :
          Len(storage_channel_messages) < MaxGatedMessages /\ ChannelWrite(t, "soil", d)
    \/ \E t \in Bearers : ChannelListen(t, "soil", 0, 2)
    \/ \E t \in Bearers, n \in Devices : DirectListen(t, n, 1)
    \/ ListenerReturn
    \/ ListenerTimeout
    \/ \E t \in Bearers, s \in Devices, n \in Devices, d \in Payloads, ttl \in TTLs :
          DirectRequest(t, s, n, d, ttl)
    \/ \E t \in Bearers, s \in Devices, n \in Devices, d \in Payloads, u \in ResponseTargets :
          DirectResponse(t, s, n, d, u)
    \/ RequesterReturn
    \/ RequesterTimeout

InitStorage == Init /\ dialect = "mysql"

SpecStorage == InitStorage /\ [][NextStorage]_vars

\* The channel protocol on its own: writers and one listening client, after
\* alice and bob have registered (the state Register, Register leads to).
InitChannel ==
    /\ dialect = "mysql"
    /\ now = Epoch0
    /\ users = << [id |-> 1, username |-> "alice", password |-> hash_password("pw1")],
                  [id |-> 2, username |-> "bob", password |-> hash_password("pw1")] >>
    /\ sessions = save_session(save_session(<<>>,
                        new_session(1, "10.0.0.1", "firefox", 1, 2, 3)),
                        new_session(2, "10.0.0.1", "firefox", 4, 5, 6))
    /\ tokens = {create_access_token(1, 3, 1), create_refresh_token(1, 3, 2),
                 create_access_token(2, 6, 4), create_refresh_token(2, 6, 5)}
    /\ nextUuid = 7
    /\ last = Outcome("register", "none", _get_session_key(2, 6),
                      create_access_token(2, 6, 4), create_refresh_token(2, 6, 5))
    /\ refresher = NotRefreshing
    /\ storage_channel_messages = <<>>
    /\ streams = <<>>
    /\ directs = <<>>
    /\ listener = Idle
    /\ requester = Idle
    /\ writer = NotWriting
    /\ nextMessageUuid = 1
    /\ reply = NoReply

NextChannel ==
    \/ \E t \in AccessTokens \cup {NoToken}, c \in Channels, d \in Payloads : ChannelWrite(t, c, d)
    \/ \E t \in AccessTokens, c \in Channels, d \in Payloads : ChannelWriteCommit(t, c, d)
    \/ ChannelWriteXadd
    \/ \E t \in AccessTokens \cup {NoToken}, c \in Channels, o \in Offsets, l \in Limits :
          ChannelListen(t, c, o, l)
    \/ ListenerReturn
    \/ ListenerTimeout

SpecChannel == InitChannel /\ [][NextChannel]_vars

\* The offset a catching-up client passes: 0, or the id of a message of the
\* channel (the highest it has received).
HonestOffset(user_id, channel_name, offset_id) ==
    \/ offset_id = 0
    \/ \E i \in 1..Len(storage_channel_messages) :
          /\ storage_channel_messages[i].id = offset_id
          /\ storage_channel_messages[i].user_id = user_id
          /\ storage_channel_messages[i].channel_name = channel_name

\* A client catching up on a channel: polls with limit >= 1 while writers write
\* and the cache may be lost.
PollLimits == 1..2

NextCatchUp ==
    \/ \E t \in AccessTokens, c \in Channels, d \in Payloads : ChannelWrite(t, c, d)
    \/ \E key \in DOMAIN streams : StreamLost(key)
    \/ \E t \in AccessTokens, c \in Channels, o \in Offsets, l \in PollLimits :
          HonestOffset(t.user_id, c, o) /\ ChannelListen(t, c, o, l)
    \/ ListenerReturn
    \/ ListenerTimeout

SpecCatchUp == InitChannel /\ [][NextCatchUp]_vars

\* The direct routes as the devices of alice and bob call them: requests with
\* a timeout, responses naming a request uuid as text, listens.  The clock
\* stands still; a key's deadline is what its last EXPIRE set.
DirectNames == {"pump", "pump:response:b"}
DirectTTLs == {1, 2}
\* The texts a response may give as response_to_message_uuid: the uuid of the
\* pending request, another uuid, or a text with that uuid at its end.
ResponseTexts ==
    {uuid_text(requester.offset_id), uuid_text(requester.offset_id + 1),
     <<"b", "response">> \o uuid_text(requester.offset_id)}

NextDirect ==
    \/ \E t \in AccessTokens, s \in DirectNames, n \in DirectNames, d \in Payloads,
           ttl \in DirectTTLs : DirectRequest(t, s, n, d, ttl)
    \/ \E t \in AccessTokens, s \in DirectNames, n \in DirectNames, d \in Payloads,
           u \in ResponseTexts : DirectResponse(t, s, n, d, u)
    \/ RequesterReturn
    \/ RequesterTimeout
    \/ \E t \in AccessTokens, n \in DirectNames : DirectListen(t, n, 1)
    \/ ListenerReturn
    \/ ListenerTimeout

SpecDirect == InitChannel /\ [][NextDirect]_vars

\* alice holds two sessions and bob one (Register, Login, Register lead here);
\* a session is kept while the others of its user are to be revoked.
InitRevoke ==
    /\ dialect = "mysql"
    /\ now = Epoch0
    /\ users = << [id |-> 1, username |-> "alice", password |-> hash_password("pw1")],
                  [id |-> 2, username |-> "bob", password |-> hash_password("pw1")] >>
    /\ sessions = save_session(save_session(save_session(<<>>,
                        new_session(1, "10.0.0.1", "firefox", 1, 2, 3)),
                        new_session(1, "10.0.0.1", "firefox", 4, 5, 6)),
                        new_session(2, "10.0.0.1", "firefox", 7, 8, 9))
    /\ tokens = {create_access_token(1, 3, 1), create_refresh_token(1, 3, 2),
                 create_access_token(1, 6, 4), create_refresh_token(1, 6, 5),
                 create_access_token(2, 9, 7), create_refresh_token(2, 9, 8)}
    /\ nextUuid = 10
    /\ last = Outcome("register", "none", _get_session_key(2, 9),
                      create_access_token(2, 9, 7), create_refresh_token(2, 9, 8))
    /\ refresher = NotRefreshing
    /\ storage_channel_messages = <<>>
    /\ streams = <<>>
    /\ directs = <<>>
    /\ listener = Idle
    /\ requester = Idle
    /\ writer = NotWriting
    /\ nextMessageUuid = 1
    /\ reply = NoReply

NextRevoke ==
    \/ \E key \in DOMAIN sessions : RevokeOtherSessions(key[1], key[2])
    \/ \E t \in tokens : Authenticate(t)
    \/ \E t \in tokens : Logout(t)
    \/ \E t \in tokens, s \in SessionUuids : TerminateSession(t, s)

SpecRevoke == InitRevoke /\ [][NextRevoke]_vars

\* Token validation in every condition a token can meet: its JWT expired
\* (Tick), its session revoked (Logout), rotated (Refresh) or gone from Redis.
NextValidate ==
    \/ \E u \in Usernames, ip \in HomeIPs, ua \in HomeUserAgents : Register(u, "pw1", ip, ua)
    \/ \E t \in tokens : Authenticate(t)
    \/ \E t \in tokens, ip \in HomeIPs, ua \in HomeUserAgents : Refresh(t, ip, ua)
    \/ \E t \in tokens : Logout(t)
    \/ \E key \in DOMAIN sessions : SessionLost(key)
    \/ Tick

SpecValidate == InitRefresh /\ [][NextValidate]_vars

\* Channel writes, each served whole, and listen_channel calls as the event
\* loop interleaves them: one call may stand between its stream-info check
\* and its XREAD while writes are served.
NextListen ==
    \/ \E t \in AccessTokens, c \in Channels, d \in Payloads : ChannelWrite(t, c, d)
    \/ \E t \in AccessTokens, c \in Channels, o \in Offsets, l \in PollLimits :
          HonestOffset(t.user_id, c, o) /\ ChannelListen(t, c, o, l)
    \/ \E t \in AccessTokens, c \in Channels, o \in Offsets, l \in PollLimits :
          HonestOffset(t.user_id, c, o) /\ ChannelListenInfo(t, c, o, l)
    \/ ChannelListenXread
    \/ ListenerReturn
    \/ ListenerTimeout

SpecListen == InitChannel /\ [][NextListen]_vars

\* Devices of alice and bob push requests to a device's list while that device
\* listens; one listen call may stand between its LRANGE and its DEL.
ListenLimits == 0..1

NextListenDirect ==
    \/ \E t \in AccessTokens, s \in Devices, n \in Devices, d \in Payloads, ttl \in DirectTTLs :
          DirectRequest(t, s, n, d, ttl)
    \/ RequesterTimeout
    \/ \E t \in AccessTokens, n \in Devices, l \in ListenLimits : DirectListen(t, n, l)
    \/ \E t \in AccessTokens, n \in Devices, l \in ListenLimits : DirectListenCollect(t, n, l)
    \/ DirectListenDelete
    \/ ListenerReturn
    \/ ListenerTimeout

SpecListenDirect == InitChannel /\ [][NextListenDirect]_vars

\* ================================================================ claims
IsActive(key) == key \in DOMAIN sessions /\ model_validate(sessions[key].hash).is_active
Revoked(key) == key \in DOMAIN sessions /\ ~model_validate(sessions[key].hash).is_active
StoredSession(token) == model_validate(sessions[TokenKey(token)].hash)

\* C1: a refresh presenting a valid refresh token of an active
\* session from another IP address or User-Agent than the session's revokes the
\* session, returns no token pair and answers SuspiciousActivity (403).
C1_SuspiciousRefreshRevokes ==
    [][\A t \in tokens, ip \in IPs, ua \in UserAgents :
          ( /\ validate_refresh_token(t) = "none"
            /\ ~suspicious_activity_check(StoredSession(t), ip, ua)
            /\ Refresh(t, ip, ua) )
          => ( /\ last'.error = "SuspiciousActivity"
               /\ StatusOf(last'.error) = 403
               /\ last'.access = NoToken /\ last'.refresh = NoToken
               /\ tokens' = tokens
               /\ TokenKey(t) \in DOMAIN sessions'
               /\ ~model_validate(sessions'[TokenKey(t)].hash).is_active )]_vars

\* C2: directly after a successful refresh the returned pair validates and
\* every token issued earlier for that session is rejected with TokenExpired
\* (401) by the validator of its type; and in every state a session accepts
\* at most one access-token uuid and at most one refresh-token uuid.
ValidatorOf(token) ==
    IF token.token_type = "access" THEN validate_access_token(token)
    ELSE validate_refresh_token(token)

C2_TokenRotation ==
    /\ ( last.op = "refresh" /\ last.error = "none" ) =>
          /\ validate_access_token(last.access) = "none"
          /\ validate_refresh_token(last.refresh) = "none"
          /\ \A t \in tokens \ {last.access, last.refresh} :
                TokenKey(t) = last.key =>
                   ValidatorOf(t) = "TokenExpired" /\ StatusOf(ValidatorOf(t)) = 401
    /\ \A t1, t2 \in tokens :
          ( /\ TokenKey(t1) = TokenKey(t2) /\ t1.token_type = t2.token_type
            /\ ValidatorOf(t1) = "none" /\ ValidatorOf(t2) = "none" )
          => t1.token_uuid = t2.token_uuid

\* C2's case: a refresh has just succeeded for a session that had older tokens.
C2_Witness ==
    /\ last.op = "refresh" /\ last.error = "none"
    /\ \E t \in tokens \ {last.access, last.refresh} :
          TokenKey(t) = last.key /\ t.token_type = "refresh" /\ t.exp > now

\* C3: once a session is revoked it never becomes active again, and every
\* authenticate or refresh presenting one of its tokens fails with a 401:
\* InactiveSession when the token decodes (unexpired JWT of the expected type),
\* the decoder's TokenExpired / TokenInvalid otherwise.
C3_RevokedStaysRevoked ==
    /\ [][ \A k \in DOMAIN sessions :
              Revoked(k) => (k \in DOMAIN sessions' => Revoked(k)') ]_vars
    /\ [](\A t \in tokens : Revoked(TokenKey(t)) =>
              /\ authenticate(t) =
                    ( IF decode_access_token_with_http_exceptions(t) = "none"
                      THEN "InactiveSession"
                      ELSE decode_access_token_with_http_exceptions(t) )
              /\ refresh_error(t) =
                    ( IF decode_refresh_token_with_http_exceptions(t) = "none"
                      THEN "InactiveSession"
                      ELSE decode_refresh_token_with_http_exceptions(t) )
              /\ StatusOf(authenticate(t)) = 401 /\ StatusOf(refresh_error(t)) = 401)

\* The refresh lifetime of a stored session ends at the exp of its current
\* refresh token: creation or last rotation plus REFRESH_TOKEN_TTL.
LifetimeEnd(key) ==
    LET current == {t \in tokens : /\ TokenKey(t) = key /\ t.token_type = "refresh"
                                   /\ t.token_uuid = sessions[key].hash.refresh_token_uuid}
    IN (CHOOSE t \in current : TRUE).exp

IsLatestRefreshToken(t) ==
    /\ t.token_type = "refresh"
    /\ \A t2 \in tokens : (TokenKey(t2) = TokenKey(t) /\ t2.token_type = "refresh")
                             => t2.token_uuid <= t.token_uuid

\* C4 (as claimed): a session record is gone from Redis once its refresh
\* lifetime has elapsed, its tokens then no longer authenticate, and the record
\* is present as long as that lifetime has not elapsed.
C4_SessionExpiresWithRefreshLifetime ==
    /\ \A key \in DOMAIN sessions : now < LifetimeEnd(key)
    /\ \A t \in tokens : TokenKey(t) \notin DOMAIN sessions => authenticate(t) # "none"
    /\ \A t \in tokens : (IsLatestRefreshToken(t) /\ now < t.exp) => TokenKey(t) \in DOMAIN sessions

\* C5 (as claimed): register with a taken username fails with UserAlreadyExists
\* (409) and creates neither a user nor a session; usernames stay unique.
C5_DuplicateUsernameConflict ==
    [][ /\ \A u \in Usernames, p \in Passwords, ip \in HomeIPs, ua \in HomeUserAgents :
             ( UserByName(u) # {} /\ Register(u, p, ip, ua) )
             => ( /\ last'.error = "UserAlreadyExists" /\ StatusOf(last'.error) = 409
                  /\ users' = users /\ sessions' = sessions /\ tokens' = tokens )
        /\ \A i, j \in 1..Len(users') : users'[i].username = users'[j].username => i = j ]_vars

StorageOps == {"write_to_channel", "listen_channel", "listen_direct",
               "direct_request", "direct_response"}

\* The bearer token is an access token the session service accepts now, its
\* session exists and is active, and user_id is that session's user.
BearerOfActiveSession(token, user_id) ==
    /\ token \in tokens
    /\ validate_access_token(token) = "none"
    /\ IsActive(TokenKey(token))
    /\ StoredSession(token).user_id = user_id

ChannelRows(user_id, channel_name) ==
    get_messages(user_id, channel_name, 0, Len(storage_channel_messages))

IsSuffixOfChannel(key) ==
    LET rows == ChannelRows(key[2], key[4])
        n == Len(streams[key])
    IN /\ n <= Len(rows)
       /\ \A i \in 1..n :
             /\ streams[key][i].id = stream_id(rows[Len(rows) - n + i].id)
             /\ model_validate_json(streams[key][i].fields.data) = rows[Len(rows) - n + i]

\* C8: the message write_to_channel returns is a row of the table and an entry
\* of its channel's stream under id "<message.id>-0"; and, whenever no write is
\* between its INSERT and its XADD, every stream is, entry for entry, a suffix
\* of the rows of its user and channel in id order.
C8_ChannelCacheConsistent ==
    /\ ( reply.op = "write_to_channel" /\ reply.error = "none" ) =>
          LET message == reply.messages[1]
              key == _get_channel_stream_key(message.user_id, message.channel_name)
          IN /\ message.id \in 1..Len(storage_channel_messages)
             /\ to_schema(storage_channel_messages[message.id]) = message
             /\ message.user_id = reply.user_id /\ message.channel_name = reply.name
             /\ key \in DOMAIN streams
             /\ \E i \in 1..Len(streams[key]) :
                   /\ streams[key][i].id = stream_id(message.id)
                   /\ model_validate_json(streams[key][i].fields.data) = message
    /\ writer.pc = "idle" => \A key \in DOMAIN streams : IsSuffixOfChannel(key)

\* C9: whatever path served it, a listen_channel answer holds only
\* messages of the caller's user and channel with id > offset_id, in ascending
\* id order, and at most limit of them.
C9_ListenAfterOffsetWithinLimit ==
    ( reply.op = "listen_channel" /\ reply.error = "none" ) =>
       /\ \A i \in 1..Len(reply.messages) :
             /\ reply.messages[i].user_id = reply.user_id
             /\ reply.messages[i].channel_name = reply.name
             /\ reply.messages[i].id > reply.offset_id
       /\ \A i, j \in 1..Len(reply.messages) :
             i < j => reply.messages[i].id < reply.messages[j].id
       /\ Len(reply.messages) <= reply.limit

\* C10: a listen_channel that answers without waiting, no write being between
\* its INSERT and its XADD, answers exactly what get_messages gives on the table; it does so precisely when the stream has
\* entries and offset_id is below the newest one, from the database when
\* offset_id is below the oldest stream entry and from the stream otherwise.
C10_HybridReadEqualsDbRead ==
    ( /\ reply.op = "listen_channel" /\ reply.error = "none" /\ reply.path # "wait"
      /\ writer.pc = "idle" ) =>
       LET info == _get_redis_stream_info(reply.user_id, reply.name)
       IN /\ reply.messages = get_messages(reply.user_id, reply.name,
                                           reply.offset_id, reply.limit)
          /\ info.error = "none" /\ info.top # 0 - 1 /\ reply.offset_id < info.top
          /\ reply.path = IF reply.offset_id < info.bottom THEN "db" ELSE "redis"

\* ---------------------------------------------------------------------------
\* The rows of the channel the client has not received yet.
Pending(user_id, channel_name, offset_id) ==
    get_messages(user_id, channel_name, offset_id, Len(storage_channel_messages))

\* C11: every poll of a catching-up client (offset_id = highest id received,
\* limit >= 1) continues the channel without gap or repetition: what it returns
\* are the next rows of the channel after offset_id, in id order; and while rows
\* are pending a poll returns some of them: it neither fails nor blocks, whatever
\* has become of the channel's stream.  Poll after poll, the client so receives
\* every message exactly once.
C11_CatchUpWithoutGaps ==
    /\ ( reply.op = "listen_channel" /\ reply.limit >= 1 ) =>
          /\ reply.error = "none" =>
                reply.messages = get_messages(reply.user_id, reply.name, reply.offset_id,
                                              Len(reply.messages))
          /\ ( Pending(reply.user_id, reply.name, reply.offset_id) # <<>>
               /\ reply.path # "wait" ) =>
                reply.error = "none" /\ reply.messages # <<>>
    /\ ( listener.pc = "blocked" /\ listener.op = "listen_channel" ) =>
          Pending(listener.user_id, listener.name, listener.offset_id) = <<>>

\* C12: a direct request is answered only with the response that was sent by
\* the same user with response_to_message_uuid = the request's uuid and
\* sender_name = the request's target_name: the step that hands a response to
\* the waiting request is such a send_direct_response, the call returns that
\* response and no other, and a call that was handed nothing returns None.
C12_ResponseCorrelation ==
    /\ [][ ( requester.pc = "blocked" /\ requester'.pc = "ready" ) =>
              \E t \in AccessTokens, n \in DirectNames, d \in Payloads :
                  /\ HTTPJWTBearerAuthDependency(t) = "none"
                  /\ AuthUserId(t) = requester.user_id
                  /\ DirectResponse(t, requester.name, n, d, uuid_text(requester.offset_id)) ]_vars
    /\ [][ ( requester.pc # "idle" /\ requester'.pc = "idle" ) =>
              /\ reply'.op = "direct_request" /\ reply'.error = "none"
              /\ reply'.offset_id = requester.offset_id
              /\ reply'.messages = MapSeq(requester.messages, model_validate_json)
              /\ requester.pc = "blocked" => reply'.messages = NoMessages ]_vars

\* C13: a direct message expires by its own ttl: a send onto a key that holds
\* messages leaves those messages in place and the time they are dropped at
\* unchanged; and every queued direct message, a response that found no waiting
\* request included, has a time at which it is dropped.
C13_DirectMessagesExpireIndividually ==
    /\ [][ \A k \in DOMAIN directs :
              ( k \in DOMAIN directs' /\ Len(directs'[k].items) > Len(directs[k].items) ) =>
                  /\ SubSeq(directs'[k].items, 1, Len(directs[k].items)) = directs[k].items
                  /\ directs'[k].deadline = directs[k].deadline ]_vars
    /\ [](\A k \in DOMAIN directs : directs[k].deadline # NoExpiry)

\* C14: a successful validate_access_token (an authenticated request) sets
\* last_used of the token's session to the time of the call and changes no
\* other field of that session, no other session and no key's expiry.
C14_ValidateTouchesLastUsed ==
    [][ ( last'.op = "authenticate" /\ last'.error = "none" ) =>
          /\ DOMAIN sessions' = DOMAIN sessions
          /\ \A k \in DOMAIN sessions :
                sessions'[k] = IF k = last'.key
                               THEN [sessions[k] EXCEPT !.hash.last_used = now]
                               ELSE sessions[k] ]_vars

\* C15: revoke_other_sessions(user_id, keep_session_uuid) leaves every other
\* session of that user inactive, the kept session as it was (active), and the
\* sessions of every other user unchanged.
C15_RevokeOtherSessions ==
    [][ last'.op = "revoke_other_sessions" =>
          /\ DOMAIN sessions' = DOMAIN sessions
          /\ \A k \in DOMAIN sessions :
                IF k[1] = last'.key[1] /\ k # last'.key
                THEN ~model_validate(sessions'[k].hash).is_active
                ELSE sessions'[k] = sessions[k] ]_vars

\* C16: token validation answers every failure with a 401 and changes no
\* state: an expired JWT gives TokenExpired, a token of the other type
\* TokenInvalid, a token whose session record is not in Redis InvalidSession,
\* an inactive session InactiveSession, a token uuid that is not the session's
\* current one TokenExpired; the token is accepted only when none applies.
C16_ValidationFailuresAre401 ==
    /\ [][ ( last'.op \in {"authenticate", "refresh"} /\ last'.error # "none" ) =>
              /\ StatusOf(last'.error) = 401
              /\ sessions' = sessions /\ tokens' = tokens ]_vars
    /\ [](\A t \in tokens :
             /\ validate_access_token(t) =
                   ( IF t.exp <= now THEN "TokenExpired"
                     ELSE IF t.token_type # "access" THEN "TokenInvalid"
                     ELSE IF TokenKey(t) \notin DOMAIN sessions THEN "InvalidSession"
                     ELSE IF ~IsActive(TokenKey(t)) THEN "InactiveSession"
                     ELSE IF StoredSession(t).access_token_uuid # t.token_uuid THEN "TokenExpired"
                     ELSE "none" )
             /\ validate_refresh_token(t) =
                   ( IF t.exp <= now THEN "TokenExpired"
                     ELSE IF t.token_type # "refresh" THEN "TokenInvalid"
                     ELSE IF TokenKey(t) \notin DOMAIN sessions THEN "InvalidSession"
                     ELSE IF ~IsActive(TokenKey(t)) THEN "InactiveSession"
                     ELSE IF StoredSession(t).refresh_token_uuid # t.token_uuid THEN "TokenExpired"
                     ELSE "none" ))

\* C17: access and refresh tokens are not interchangeable: as long as its JWT
\* has not expired, a refresh token is rejected by validate_access_token and
\* an access token by validate_refresh_token with TokenInvalid (401), whatever
\* the state of the session, an active session that issued the token included;
\* no authenticated request succeeds with anything but an access token.
C17_TokenTypesNotInterchangeable ==
    /\ \A t \in tokens : t.exp > now =>
          /\ t.token_type = "refresh" =>
                /\ validate_access_token(t) = "TokenInvalid"
                /\ authenticate(t) = "TokenInvalid"
          /\ t.token_type = "access" =>
                /\ validate_refresh_token(t) = "TokenInvalid"
                /\ refresh_error(t) = "TokenInvalid"
    /\ StatusOf("TokenInvalid") = 401
    /\ ( last.op = "authenticate" /\ last.error = "none" ) =>
          \E t \in tokens : t.token_type = "access" /\ TokenKey(t) = last.key
    /\ ( last.op = "refresh" /\ last.error = "none" ) =>
          last.access.token_type = "access" /\ last.refresh.token_type = "refresh"

\* C17's case: a refresh call is refused with TokenInvalid while an access
\* token of an active session, current and unexpired, is at hand, and so is
\* an authenticated request while such a refresh token is.
C17_Witness ==
    /\ last.op \in {"refresh", "authenticate"} /\ last.error = "TokenInvalid"
    /\ \E t \in tokens :
          /\ t.token_type = ( IF last.op = "refresh" THEN "access" ELSE "refresh" )
          /\ t.exp > now /\ IsActive(TokenKey(t))
          /\ ( IF last.op = "refresh" THEN StoredSession(t).access_token_uuid
                ELSE StoredSession(t).refresh_token_uuid ) = t.token_uuid

\* C18: a revocation is not lost to a refresh in progress: when the refresh
\* call that had read the session before it was revoked completes its write
\* (update_session), the session is still inactive and the call has not
\* answered a token pair.
C18_RevocationNotLost ==
    [][ ( refresher.pc = "validated" /\ refresher'.pc = "idle" ) =>
          LET key == _get_session_key(refresher.session.user_id, refresher.session.session_uuid)
          IN Revoked(key) =>
                /\ key \in DOMAIN sessions'
                /\ ~model_validate(sessions'[key].hash).is_active
                /\ last'.error # "none" ]_vars

\* C19: a refresh token is redeemed at most once: a refresh call in progress
\* answers a token pair only if the refresh token it presented is still the
\* session's current one when it writes (no other call has redeemed it in
\* between), and every pair a refresh call answers is the pair the session
\* accepts when the call returns.
C19_RefreshTokenRedeemedOnce ==
    [][ ( last'.op = "refresh" /\ last'.error = "none" /\ tokens' # tokens ) =>
          /\ ( refresher.pc = "validated" /\ refresher'.pc = "idle" ) =>
                /\ last'.key \in DOMAIN sessions
                /\ model_validate(sessions[last'.key].hash).refresh_token_uuid
                      = refresher.session.refresh_token_uuid
          /\ last'.key \in DOMAIN sessions'
          /\ model_validate(sessions'[last'.key].hash).access_token_uuid = last'.access.token_uuid
          /\ model_validate(sessions'[last'.key].hash).refresh_token_uuid = last'.refresh.token_uuid
      ]_vars

\* C20: every write_to_channel call succeeds whatever the order in which the
\* writers reach Redis after their database commits: the call that XADDs the
\* row it committed answers that message, and the row is in the table; so does
\* a call served without another in between.
C20_ConcurrentWritesAllSucceed ==
    [][ /\ ( writer.pc = "committed" /\ writer'.pc = "idle" ) =>
              /\ reply'.op = "write_to_channel" /\ reply'.error = "none"
              /\ reply'.messages = <<writer.message>>
              /\ \E i \in 1..Len(storage_channel_messages') :
                    to_schema(storage_channel_messages'[i]) = writer.message
        /\ ( Len(storage_channel_messages') > Len(storage_channel_messages)
             /\ writer' = writer ) =>
              /\ reply'.op = "write_to_channel" /\ reply'.error = "none"
              /\ reply'.messages = <<to_schema(storage_channel_messages'[Len(storage_channel_messages')])>>
      ]_vars

\* C21: listen_channel does not miss a message written while it runs: a call
\* that returns empty-handed from its wait (the timeout elapsed) leaves no
\* message of its channel with an id above its offset_id behind, the write
\* that landed between its stream-info check and its XREAD included; and a
\* call that is woken returns what woke it.
C21_ListenMissesNoWrite ==
    [][ ( listener.op = "listen_channel" /\ listener.pc \in {"blocked", "ready"}
          /\ listener'.pc = "idle" ) =>
          /\ listener.pc = "blocked" =>
                Pending(listener.user_id, listener.name, listener.offset_id) = <<>>
          /\ listener.pc = "ready" => reply'.messages # <<>> ]_vars

\* C22: listen_direct neither loses nor duplicates messages: a message that
\* leaves a device's direct list in a step is answered by the listen_direct
\* call of that step or is in the hands of the call that collects it; a call
\* answers everything it collected; and a message that has been answered is
\* no longer queued.
C22_ListenDirectExactlyOnce ==
    [][ /\ \A k \in DOMAIN directs : \A i \in 1..Len(directs[k].items) :
              \/ /\ k \in DOMAIN directs'
                 /\ \E j \in 1..Len(directs'[k].items) :
                       directs'[k].items[j] = directs[k].items[i]
              \/ /\ reply'.op = "listen_direct"
                 /\ \E j \in 1..Len(reply'.messages) :
                       model_dump_json(reply'.messages[j]) = directs[k].items[i]
              \/ /\ listener'.op = "listen_direct"
                 /\ \E j \in 1..Len(listener'.messages) :
                       listener'.messages[j] = directs[k].items[i]
        /\ ( listener.op = "listen_direct" /\ listener.pc \in {"collected", "ready"}
             /\ listener'.pc = "idle" ) =>
              /\ reply'.op = "listen_direct"
              /\ \A i \in 1..Len(listener.messages) : \E j \in 1..Len(reply'.messages) :
                    model_dump_json(reply'.messages[j]) = listener.messages[i]
        /\ ( reply'.op = "listen_direct" /\ reply' # reply ) =>
              \A j \in 1..Len(reply'.messages) : \A k \in DOMAIN directs' :
                 \A i \in 1..Len(directs'[k].items) :
                    directs'[k].items[i] # model_dump_json(reply'.messages[j]) ]_vars

====
